---- MODULE Spec2Model ----
(***************************************************************************)
(* Othello: the move rules, the board/history/turn controllers and the     *)
(* game progression controller of src/script.js (the variant with undo /   *)
(* redo and the bot, lines 366-1329), as a state machine.                  *)
(*                                                                         *)
(* One action per event the browser can deliver to the controller: a click *)
(* on a board cell, the restart / undo / redo buttons, and the resumption  *)
(* of a bot move after its 700 ms timer.  Every event runs to completion.  *)
(***************************************************************************)
EXTENDS Integers, Sequences, FiniteSets, TLC

\* ------------------------------------------------------------------ bounds
\* Human events (clicks, undo, redo, restart) explored after the opening; the
\* bot's moves are not counted.
MaxEvents == 2
\* Bot timers allowed to be outstanding at once.
MaxPending == 2
\* Turn indices asked of the history run from -2 to MaxProbeTurn.
MaxProbeTurn == 14

\* --------------------------------------------------------------- constants
\* The board is 8 x 8 (isOnBoard, boardData init).
BoardSize == 8

Rows == 0 .. (BoardSize - 1)

Coords == Rows \X Rows

Pieces == {"black", "white"}

CellStates == {"empty"} \cup Pieces

\* bot.piece may be a piece or null.
NoPiece == "null"

playerOrder == <<"black", "white">>

orderLength == Len(playerOrder)

INITIAL_PIECES == << [coordinate |-> <<3, 3>>, piece |-> "white"], [coordinate |-> <<3, 4>>, piece |-> "black"], [coordinate |-> <<4, 3>>, piece |-> "black"], [coordinate |-> <<4, 4>>, piece |-> "white"] >>

DIRECTIONS == << <<-1, -1>>, <<-1, 0>>, <<-1, 1>>, <<0, -1>>, <<0, 1>>, <<1, -1>>, <<1, 0>>, <<1, 1>> >>

\* allCoords: row-major list of the 64 coordinates.
allCoords == [i \in 1 .. (BoardSize * BoardSize) |-> << (i - 1) \div BoardSize, (i - 1) % BoardSize >>]

\* A nullable list of coordinates (null | Coordinate[]).
NullCells == [isNull |-> TRUE, cells |-> << >>]

SomeCells(cells) == [isNull |-> FALSE, cells |-> cells]

\* -------------------------------------------------- createBoardDataController
boardInitFrom(i, b) == [b EXCEPT ![INITIAL_PIECES[i].coordinate] = INITIAL_PIECES[i].piece]

RECURSIVE placeInitial(_, _)
placeInitial(i, b) == IF i > Len(INITIAL_PIECES) THEN b ELSE placeInitial(i + 1, boardInitFrom(i, b))

boardInit == placeInitial(1, [x \in Coords |-> "empty"])

getCell(b, coord) == b[coord]

setCell(b, coord, cellState) == [b EXCEPT ![coord] = cellState]

RECURSIVE flipCellsFrom(_, _, _, _)
flipCellsFrom(b, cellsToFlip, piece, i) == IF i > Len(cellsToFlip) THEN b ELSE flipCellsFrom([b EXCEPT ![cellsToFlip[i]] = piece], cellsToFlip, piece, i + 1)

\* flipCells with the forEach left out: no cell is turned over.
flipCellsSkipped(b, cellsToFlip, piece) == b

flipCells(b, cellsToFlip, piece) == flipCellsFrom(b, cellsToFlip, piece, 1)

\* get current(): a copy of the grid, cell by cell.
current(b) == [x \in Coords |-> b[x]]

\* get current() returning the grid's own rows.
currentSharesRowsAlways(b) == TRUE

\* Whether what get current() returns shares rows with the live grid: map and
\* the spread make a new outer array and new rows.
currentSharesRows(b) == FALSE

loadData(newData) == [x \in Coords |-> newData[x]]

\* Whether the live grid shares rows with newData after loadData(newData):
\* again a new outer array and new rows.
loadDataSharesRows(newData) == FALSE

\* A write to the live grid shows in every snapshot that shares its rows:
\* shared is the set of turns whose snapshot does.
writeThrough(h, shared, b) == [i \in DOMAIN h |-> IF (i - 1) \in shared THEN [h[i] EXCEPT !.boardData = b] ELSE h[i]]

\* The snapshots sharing rows with the live grid once current has been pushed
\* at turn.
sharedAfterPush(shared, turn, b) == {i \in shared : i < turn} \cup (IF currentSharesRows(b) THEN {turn} ELSE {})

\* The reduce callback without its second test: white is never counted.
scoreStepBlackOnly(acc, cur) == [b |-> IF cur = "black" THEN acc.b + 1 ELSE acc.b, w |-> acc.w]

\* The reduce callback with its first test loosened: every piece counts as black.
scoreStepAnyPiece(acc, cur) == [b |-> IF cur # "empty" THEN acc.b + 1 ELSE acc.b, w |-> IF cur = "white" THEN acc.w + 1 ELSE acc.w]

\* The callback of score's reduce.
scoreStep(acc, cur) == [b |-> IF cur = "black" THEN acc.b + 1 ELSE acc.b, w |-> IF cur = "white" THEN acc.w + 1 ELSE acc.w]

\* this.current.flat().reduce(...): the reduce runs over the cells of row 0,
\* then of row 1, and so on; scoreRow is its run over the cells of one row.
\* The accumulator is a value before the callback is called on the next cell.
RECURSIVE scoreRow(_, _, _, _)
scoreRow(b, r, c, acc) == IF c >= BoardSize THEN acc ELSE CHOOSE res \in {scoreRow(b, r, c + 1, a) : a \in {scoreStep(acc, b[<<r, c>>])}} : TRUE

RECURSIVE scoreReduce(_, _, _)
scoreReduce(b, r, acc) == IF r >= BoardSize THEN acc ELSE CHOOSE res \in {scoreReduce(b, r + 1, a) : a \in {scoreRow(b, r, 0, acc)}} : TRUE

score(b) == scoreReduce(current(b), 0, [b |-> 0, w |-> 0])

\* ---------------------------------------------------- createHistoryController
\* history[turn] of the source is h[turn + 1] here.
\* isData comparing with >= : the index length counts as data.
isDataInclusive(h, turn) == IF turn < 0 THEN FALSE ELSE Len(h) >= turn

isData(h, turn) == IF turn < 0 THEN FALSE ELSE Len(h) > turn

NullData == [isNull |-> TRUE]

\* history[turn] || null: an index outside the array gives undefined.
getData(h, turn) ==
  IF ~isData(h, turn) THEN NullData
  ELSE IF (turn + 1) \in DOMAIN h THEN [isNull |-> FALSE, player |-> h[turn + 1].player, boardData |-> h[turn + 1].boardData]
  ELSE NullData

\* pushData slicing one entry late: the entry at turn is kept.
pushDataSliceLate(h, turn, player, b) == Append(IF Len(h) > turn THEN SubSeq(h, 1, turn + 1) ELSE h, [player |-> player, boardData |-> b])

\* pushData without the slice: the entry is appended whatever the length.
pushDataNoSlice(h, turn, player, b) == Append(h, [player |-> player, boardData |-> b])

pushData(h, turn, player, b) == Append(IF Len(h) > turn THEN SubSeq(h, 1, turn) ELSE h, [player |-> player, boardData |-> b])

\* ----------------------------------------------------------- createTurnCounter
increment(n) == n + 1

decrement(n) == IF n > 0 THEN n - 1 ELSE n

\* --------------------------------------------------------- createPlayerManager
indexOf(player) == IF \E i \in 1 .. orderLength : playerOrder[i] = player THEN (CHOOSE i \in 1 .. orderLength : playerOrder[i] = player) - 1 ELSE -1

\* setPlayer without the turn's remainder: the offset is the player's index.
setPlayerSkipIndexOnly(turn, skip, player) == IF indexOf(player) = -1 THEN skip ELSE indexOf(player)

setPlayerSkip(turn, skip, player) == IF indexOf(player) = -1 THEN skip ELSE (indexOf(player) - (turn % orderLength) + orderLength) % orderLength

playerAt(turn, skip) == playerOrder[((turn + skip) % orderLength) + 1]

currentPlayer(s) == playerAt(s.count, s.skipCount)

nextPlayer(s) == playerAt(s.count + 1, s.skipCount)

\* ------------------------------------------------------------- createMoveRules
isOnBoard(r, c) == r >= 0 /\ r < BoardSize /\ c >= 0 /\ c < BoardSize

opponentOf(pieceToPlace) == IF pieceToPlace = "black" THEN "white" ELSE "black"

RECURSIVE checkDirectionFrom(_, _, _, _, _, _)
\* checkDirection's loop with the empty cell taken for the closing piece: a
\* run that ends on an empty cell is returned.
checkDirectionThroughGap(b, startCoord, pieceToPlace, dir, dist, candidatesInDir) ==
  LET row == startCoord[1] + dir[1] * dist
      col == startCoord[2] + dir[2] * dist
  IN  IF ~isOnBoard(row, col) THEN << >>
      ELSE IF getCell(b, <<row, col>>) = opponentOf(pieceToPlace)
           THEN checkDirectionFrom(b, startCoord, pieceToPlace, dir, dist + 1, Append(candidatesInDir, <<row, col>>))
           ELSE candidatesInDir

checkDirectionFrom(b, startCoord, pieceToPlace, dir, dist, candidatesInDir) ==
  LET row == startCoord[1] + dir[1] * dist
      col == startCoord[2] + dir[2] * dist
  IN  IF ~isOnBoard(row, col) THEN << >>
      ELSE IF getCell(b, <<row, col>>) = opponentOf(pieceToPlace)
           THEN checkDirectionFrom(b, startCoord, pieceToPlace, dir, dist + 1, Append(candidatesInDir, <<row, col>>))
           ELSE IF getCell(b, <<row, col>>) = pieceToPlace THEN candidatesInDir
           ELSE << >>

\* checkDirection with its walk started one cell too far.
checkDirectionFromTwo(b, startCoord, pieceToPlace, dir) == checkDirectionFrom(b, startCoord, pieceToPlace, dir, 2, << >>)

checkDirection(b, startCoord, pieceToPlace, dir) == checkDirectionFrom(b, startCoord, pieceToPlace, dir, 1, << >>)

RECURSIVE allCandidatesFrom(_, _, _, _)
allCandidatesFrom(b, coord, pieceToPlace, d) == IF d > Len(DIRECTIONS) THEN << >> ELSE checkDirection(b, coord, pieceToPlace, DIRECTIONS[d]) \o allCandidatesFrom(b, coord, pieceToPlace, d + 1)

\* The end of getFlipCandidates without the test of the length.
nullIfEmptyNever(allCandidates) == SomeCells(allCandidates)

\* The end of getFlipCandidates: null for an empty list.
nullIfEmpty(allCandidates) == IF Len(allCandidates) = 0 THEN NullCells ELSE SomeCells(allCandidates)

getFlipCandidates(b, coord, pieceToPlace) == IF getCell(b, coord) # "empty" THEN NullCells ELSE nullIfEmpty(allCandidatesFrom(b, coord, pieceToPlace, 1))

\* getValidMoves with a filter that lets every empty cell through.
getValidMovesAnyEmpty(b, pieceToPlace) == SelectSeq(allCoords, LAMBDA coords : getCell(b, coords) = "empty")

\* allCoords.filter(...): a null result is falsy, a list (never empty) truthy.
getValidMoves(b, pieceToPlace) == SelectSeq(allCoords, LAMBDA coords : ~getFlipCandidates(b, coords, pieceToPlace).isNull)

\* getMovesAndFlips' forEach pushes, in allCoords' order, an entry for every
\* coordinate whose flip candidates are not null.
pushedCoords(b, pieceToPlace) == SelectSeq(allCoords, LAMBDA coordinate : getFlipCandidates(b, coordinate, pieceToPlace).isNull = FALSE)

movesAndFlipsOf(b, pieceToPlace, pushed) == [i \in 1 .. Len(pushed) |-> [coordinate |-> pushed[i], flipCandidates |-> getFlipCandidates(b, pushed[i], pieceToPlace).cells]]

getMovesAndFlips(b, pieceToPlace) == movesAndFlipsOf(b, pieceToPlace, pushedCoords(b, pieceToPlace))

\* ------------------------------------------------------------------------ BOT
\* A strategy draws from Math.random(): it is modelled by the set of entries it
\* can return.
random(movesAndFlips) == {movesAndFlips[i] : i \in 1 .. Len(movesAndFlips)}

\* greedy's callback with its two comparisons the wrong way round.
greedyStepLeast(pre, cur) ==
  IF Len(pre.flipCandidates) < Len(cur.flipCandidates) THEN {pre}
  ELSE IF Len(pre.flipCandidates) > Len(cur.flipCandidates) THEN {cur}
  ELSE {pre, cur}

\* One step of greedy's reduce callback: the values the accumulator can take.
greedyStep(pre, cur) ==
  IF Len(pre.flipCandidates) > Len(cur.flipCandidates) THEN {pre}
  ELSE IF Len(pre.flipCandidates) < Len(cur.flipCandidates) THEN {cur}
  ELSE {pre, cur}

RECURSIVE greedyReduce(_, _, _)
greedyReduce(movesAndFlips, i, pres) == IF i > Len(movesAndFlips) THEN pres ELSE greedyReduce(movesAndFlips, i + 1, UNION {greedyStep(pre, movesAndFlips[i]) : pre \in pres})

greedy(movesAndFlips) == greedyReduce(movesAndFlips, 2, {movesAndFlips[1]})

corners == << <<0, 0>>, <<0, 7>>, <<7, 0>>, <<7, 7>> >>

cornerMoves(movesAndFlips) == SelectSeq(movesAndFlips, LAMBDA m : \E k \in 1 .. Len(corners) : corners[k][1] = m.coordinate[1] /\ corners[k][2] = m.coordinate[2])

\* focusOnCorner going to greedy whatever cornerMoves holds.
focusOnCornerAlwaysGreedy(movesAndFlips, cornerMovesFound) == greedy(movesAndFlips)

focusOnCornerWith(movesAndFlips, cornerMovesFound) == IF Len(cornerMovesFound) = 0 THEN greedy(movesAndFlips) ELSE random(cornerMovesFound)

focusOnCorner(movesAndFlips) == focusOnCornerWith(movesAndFlips, cornerMoves(movesAndFlips))

StrategyTypes == {"random", "greedy", "focusOnCorner"}

\* createBot's default strategyType.
strategyType == "focusOnCorner"

strategies(type, movesAndFlips) == IF type = "random" THEN random(movesAndFlips) ELSE IF type = "greedy" THEN greedy(movesAndFlips) ELSE focusOnCorner(movesAndFlips)

NullMove == [isNull |-> TRUE, coordinate |-> <<0, 0>>, flipCandidates |-> << >>]

SomeMove(m) == [isNull |-> FALSE, coordinate |-> m.coordinate, flipCandidates |-> m.flipCandidates]

\* bot.move(): the values it can return on board b.
botMoveFrom(movesAndFlips) == IF Len(movesAndFlips) = 0 THEN {NullMove} ELSE {SomeMove(m) : m \in strategies(strategyType, movesAndFlips)}

\* bot.move() listing the moves of the other colour.
botMoveOtherColour(b, botPiece) == IF botPiece = NoPiece THEN {NullMove} ELSE botMoveFrom(getMovesAndFlips(b, opponentOf(botPiece)))

botMove(b, botPiece) == IF botPiece = NoPiece THEN {NullMove} ELSE botMoveFrom(getMovesAndFlips(b, botPiece))

\* ------------------------------------------------------ createOthelloController
\* What the event being processed was given and what the renderer was asked
\* to show during it; for a call of a controller's method, its argument (turn)
\* and what it returned (data, moves, movesAndFlips).
NoResult == [shown |-> FALSE, b |-> 0, w |-> 0]

NoCoord == <<-1, -1>>

EmptyNote == [op |-> "init", key |-> "none", coord |-> NoCoord, player |-> NoPiece, flips |-> << >>, skipped |-> NoPiece, result |-> NoResult, turn |-> -1, data |-> NullData, moves |-> << >>, movesAndFlips |-> << >>]

renderSkip(s, player) == [s EXCEPT !.note.skipped = player]

resultText(sc) == [shown |-> TRUE, b |-> sc.b, w |-> sc.w]

renderResult(s) == [s EXCEPT !.note.result = resultText(score(s.boardData))]

setInteractive(s, boolean) == [s EXCEPT !.isInteractive = boolean]

\* decideProgressionKey without its second look: a player without a move
\* is given the turn.
decideProgressionKeyNeverSkips(s) ==
  IF Len(getValidMoves(s.boardData, nextPlayer(s))) > 0 THEN "usual"
  ELSE IF Len(getValidMoves(s.boardData, currentPlayer(s))) > 0 THEN "usual"
  ELSE "gameOver"

decideProgressionKey(s) ==
  IF Len(getValidMoves(s.boardData, nextPlayer(s))) > 0 THEN "usual"
  ELSE IF Len(getValidMoves(s.boardData, currentPlayer(s))) > 0 THEN "skip"
  ELSE "gameOver"

\* proceedUsualTurn pushing the player of the turn it leaves.
proceedUsualTurnStalePlayer(s) ==
  LET turn == increment(s.count)
  IN  [s EXCEPT !.count = turn, !.history = pushData(s.history, turn, playerAt(s.count, s.skipCount), current(s.boardData))]

proceedUsualTurn(s) ==
  LET turn == increment(s.count)
  IN  [s EXCEPT !.count = turn, !.history = pushData(s.history, turn, playerAt(turn, s.skipCount), current(s.boardData)), !.shared = sharedAfterPush(s.shared, turn, s.boardData)]

\* skip() counting the pass twice.
playerSkipTwice(s) == [s EXCEPT !.skipCount = @ + 2]

playerSkip(s) == [s EXCEPT !.skipCount = @ + 1]

\* The skip entry advancing the turn and pushing the history a second time.
progressionSkipTwoTurns(s) == proceedUsualTurn(proceedUsualTurn(playerSkip(renderSkip(s, nextPlayer(s)))))

progressionSkip(s) == proceedUsualTurn(playerSkip(renderSkip(s, nextPlayer(s))))

\* The gameOver entry advancing the turn without recording it.
progressionGameOverNoPush(s) == renderResult([s EXCEPT !.count = increment(s.count)])

progressionGameOver(s) ==
  LET turn == increment(s.count)
  IN  renderResult([s EXCEPT !.count = turn, !.history = pushData(s.history, turn, playerAt(turn, s.skipCount), current(s.boardData)), !.shared = sharedAfterPush(s.shared, turn, s.boardData)])

progressionKeyMap(key, s) == IF key = "usual" THEN proceedUsualTurn(s) ELSE IF key = "skip" THEN progressionSkip(s) ELSE progressionGameOver(s)

\* proceedBotMove up to its await: the UI is locked and the timer is started.
proceedBotMoveStart(s) == [setInteractive(s, FALSE) EXCEPT !.pending = @ + 1]

\* The end of manageGameProgression: the bot is started when it is to move.
kickBot(s) == IF currentPlayer(s) = s.botPiece THEN proceedBotMoveStart(s) ELSE s

progress(progressionKey, s) == progressionKeyMap(progressionKey, [s EXCEPT !.note.key = progressionKey])

manageGameProgression(s) == kickBot(progress(decideProgressionKey(s), s))

\* The state once flipCells and setCell have written the live grid.
placed(s, b, coord, player, cells) == [s EXCEPT !.boardData = b, !.history = writeThrough(s.history, s.shared, b), !.note.coord = coord, !.note.player = player, !.note.flips = cells]

\* handleMove without the test for null: the piece is placed whatever
\* cellsToFlip is.
handleMoveUnchecked(s, coord, player, cellsToFlip) == manageGameProgression(placed(s, setCell(flipCells(s.boardData, cellsToFlip.cells, player), coord, player), coord, player, cellsToFlip.cells))

\* handleMove once cellsToFlip is settled (given, or computed for the player).
handleMoveWith(s, coord, player, cellsToFlip) ==
  IF cellsToFlip.isNull THEN [s EXCEPT !.note.key = "invalid", !.note.coord = coord, !.note.player = player]
  ELSE manageGameProgression(placed(s, setCell(flipCells(s.boardData, cellsToFlip.cells, player), coord, player), coord, player, cellsToFlip.cells))

\* handleMove taking a null from getFlipCandidates for an empty list.
handleMoveNullAsEmpty(s, coord, given) == handleMoveWith(s, coord, currentPlayer(s), IF given.isNull THEN SomeCells(getFlipCandidates(s.boardData, coord, currentPlayer(s)).cells) ELSE given)

handleMove(s, coord, given) == handleMoveWith(s, coord, currentPlayer(s), IF given.isNull THEN getFlipCandidates(s.boardData, coord, currentPlayer(s)) ELSE given)

\* proceedBotMove after the await without the test of whose turn it is.
proceedBotMoveResumeUnchecked(s, move) ==
  IF move.isNull THEN [s EXCEPT !.pending = @ - 1, !.note.key = "noBotMove"]
  ELSE setInteractive(handleMove([s EXCEPT !.pending = @ - 1], move.coordinate, SomeCells(move.flipCandidates)), TRUE)

\* proceedBotMove from its await on, when the timer has fired; move is what
\* bot.move() returns if it is called.
proceedBotMoveResume(s, move) ==
  IF currentPlayer(s) # s.botPiece THEN setInteractive([s EXCEPT !.pending = @ - 1, !.note.key = "stale"], TRUE)
  ELSE IF move.isNull THEN [s EXCEPT !.pending = @ - 1, !.note.key = "noBotMove"]
  ELSE setInteractive(handleMove([s EXCEPT !.pending = @ - 1], move.coordinate, SomeCells(move.flipCandidates)), TRUE)

\* performUndo / performRedo after the counter has moved to turn: the data is
\* loaded, or the counter is moved back by undoCount.
\* The step without the roll-back: the counter stays where it was moved to.
loadTurnNoRollback(s, turn, dataToLoad, rolledBack) ==
  IF dataToLoad.isNull THEN [success |-> FALSE, s |-> [s EXCEPT !.count = turn]]
  ELSE [success |-> TRUE, s |-> [s EXCEPT !.count = turn, !.boardData = loadData(dataToLoad.boardData), !.shared = IF loadDataSharesRows(dataToLoad.boardData) THEN {turn} ELSE {}, !.skipCount = setPlayerSkip(turn, s.skipCount, dataToLoad.player)]]

loadTurn(s, turn, dataToLoad, rolledBack) ==
  IF dataToLoad.isNull THEN [success |-> FALSE, s |-> [s EXCEPT !.count = rolledBack]]
  ELSE [success |-> TRUE, s |-> [s EXCEPT !.count = turn, !.boardData = loadData(dataToLoad.boardData), !.shared = IF loadDataSharesRows(dataToLoad.boardData) THEN {turn} ELSE {}, !.skipCount = setPlayerSkip(turn, s.skipCount, dataToLoad.player)]]

\* performUndo that moves the counter and the player but leaves the board.
performUndoKeepsBoard(s) == [loadTurn(s, decrement(s.count), getData(s.history, decrement(s.count)), increment(decrement(s.count))) EXCEPT !.s.boardData = s.boardData]

performUndo(s) == loadTurn(s, decrement(s.count), getData(s.history, decrement(s.count)), increment(decrement(s.count)))

\* performRedo that moves the counter and the player but leaves the board.
performRedoKeepsBoard(s) == [loadTurn(s, increment(s.count), getData(s.history, increment(s.count)), decrement(increment(s.count))) EXCEPT !.s.boardData = s.boardData]

performRedo(s) == loadTurn(s, increment(s.count), getData(s.history, increment(s.count)), decrement(increment(s.count)))

actionFunc(action, s) == IF action = "undo" THEN performUndo(s) ELSE performRedo(s)

\* The while loop of skipBotTurns.  An iteration that succeeds and leaves the
\* state as it was repeats for ever: the handler never returns (hung).
RECURSIVE skipBotTurns(_, _)
RECURSIVE skipBotTurnsAfter(_, _, _)
skipBotTurnsAfter(action, s, r) ==
  IF ~r.success THEN r.s
  ELSE IF r.s = s THEN [s EXCEPT !.hung = TRUE]
  ELSE skipBotTurns(action, r.s)

\* skipBotTurns with the loop left out.
skipBotTurnsNever(action, s) == s

skipBotTurns(action, s) == IF s.botPiece # NoPiece /\ currentPlayer(s) = s.botPiece THEN skipBotTurnsAfter(action, s, actionFunc(action, s)) ELSE s

onUndoAfter(r) == IF ~r.success THEN [r.s EXCEPT !.note.key = "boundary"] ELSE skipBotTurns("undo", [r.s EXCEPT !.note.key = "undone"])

onUndo(s) == onUndoAfter(performUndo(s))

\* The end of onRedo: the bot is started when the redo stops on its ply.
redoKickBot(s) == IF s.hung THEN s ELSE IF s.botPiece # NoPiece /\ currentPlayer(s) = s.botPiece THEN proceedBotMoveStart(s) ELSE s

redoResult(s) == IF s.hung THEN s ELSE IF decideProgressionKey(s) = "gameOver" THEN renderResult(s) ELSE s

onRedoAfter(r) == IF ~r.success THEN [r.s EXCEPT !.note.key = "boundary"] ELSE redoKickBot(redoResult(skipBotTurns("redo", [r.s EXCEPT !.note.key = "redone"])))

onRedo(s) == onRedoAfter(performRedo(s))

\* initGame calling skip() where it should call resetSkip().
initGameSkips(s) == [s EXCEPT !.boardData = boardInit, !.count = 0, !.skipCount = @ + 1, !.history = pushData(<< >>, 0, playerAt(0, s.skipCount + 1), current(boardInit)), !.shared = sharedAfterPush({}, 0, boardInit), !.note.key = "restarted"]

\* initGame without boardDataCon.init(): the board on show is pushed.
initGameKeepsBoard(s) == [s EXCEPT !.count = 0, !.skipCount = 0, !.history = pushData(<< >>, 0, playerAt(0, 0), current(s.boardData)), !.shared = sharedAfterPush({}, 0, s.boardData), !.note.key = "restarted"]

initGame(s) == [s EXCEPT !.boardData = boardInit, !.count = 0, !.skipCount = 0, !.history = pushData(<< >>, 0, playerAt(0, 0), current(boardInit)), !.shared = sharedAfterPush({}, 0, boardInit), !.note.key = "restarted"]

\* runIfInteractive(func): s is the state at the event, r what func makes of it.
runIfInteractive(s, r) == IF s.isInteractive = FALSE THEN [s EXCEPT !.note.key = "ignored"] ELSE r

\* The table's click listener.
tableClick(s, coord) == IF s.isInteractive = FALSE THEN [s EXCEPT !.note.key = "ignored"] ELSE handleMove(s, coord, NullCells)

\* ---------------------------------------------------------------------- state
\* boardData, history, count, skipCount, isInteractive and botPiece are the
\* closures' variables.  pending counts proceedBotMove calls waiting on their
\* timer; shared is the set of turns whose snapshot shares rows with the live
\* grid; hung says a handler is looping for ever.  note and pre record, for the
\* event processed last, what it was and showed and the state it started from.
\* ended says the game-over transition has happened since the last initGame.
\* trip follows an undo and the redo asked for right after it, and a restart
\* and the restart asked for right after it: the state the first of the pair
\* started from, and how far the pair has got.
\* over says the result is on show: it was announced and neither a restart nor
\* an undo has left that position since.  budget is the number of human events
\* still to be explored.
VARIABLES boardData, history, count, skipCount, isInteractive, botPiece, pending, shared, hung, note, pre, ended, over, trip, budget

vars == <<boardData, history, count, skipCount, isInteractive, botPiece, pending, shared, hung, note, pre, ended, over, trip, budget>>

State == [boardData |-> boardData, history |-> history, count |-> count, skipCount |-> skipCount, isInteractive |-> isInteractive, botPiece |-> botPiece, pending |-> pending, shared |-> shared, hung |-> hung, note |-> note]

\* The program's part of a state record.
ProgOf(s) == [boardData |-> s.boardData, history |-> s.history, count |-> s.count, skipCount |-> s.skipCount, isInteractive |-> s.isInteractive, pending |-> s.pending, ended |-> FALSE, over |-> FALSE]

Begin(op) == [State EXCEPT !.note = [EmptyNote EXCEPT !.op = op]]

\* DOMContentLoaded: the controllers are created and initGame() is called.
Loaded(bp) == initGame([boardData |-> boardInit, history |-> << >>, count |-> 0, skipCount |-> 0, isInteractive |-> TRUE, botPiece |-> bp, pending |-> 0, shared |-> {}, hung |-> FALSE, note |-> EmptyNote])

MoveKeys == {"usual", "skip", "gameOver"}

\* No undo has just been served.
NoTrip == [stage |-> "none", from |-> ProgOf(Loaded(NoPiece))]

\* An event the handlers turn away: an input while the UI is locked, or a
\* click that is no legal move.
RejectedKeys == {"ignored", "invalid"}

\* Openings played from the loaded game before the exploration starts, with
\* the bot's colour: each is replayed through the handlers, a coordinate
\* being the human's click or, while a bot timer is pending, the bot's pick.
Openings == <<
  [bot |-> "white", line |-> << >>],
  [bot |-> "black", line |-> << >>],
  [bot |-> NoPiece, line |-> << >>],
  [bot |-> "white", line |-> << <<5, 4>>, <<5, 5>>, <<3, 2>>, <<4, 2>>, <<5, 1>>, <<5, 3>>, <<6, 4>>, <<5, 2>>, <<5, 6>>, <<6, 1>> >>],
  [bot |-> "white", line |-> << <<2, 3>>, <<2, 2>>, <<2, 1>>, <<2, 4>>, <<4, 5>>, <<2, 0>>, <<3, 2>>, <<5, 4>>, <<3, 5>> >>],
  [bot |-> "white", line |-> << <<4, 5>>, <<5, 3>>, <<5, 2>>, <<3, 5>>, <<5, 4>>, <<6, 1>>, <<5, 1>>, <<5, 5>>, <<7, 1>>, <<7, 0>>, <<5, 6>> >>],
  [bot |-> "white", line |-> << <<2, 3>>, <<4, 2>>, <<5, 2>>, <<2, 4>>, <<4, 1>>, <<4, 0>>, <<5, 3>>, <<2, 2>>, <<3, 0>>, <<6, 2>> >>],
  [bot |-> NoPiece, line |-> << <<2, 3>>, <<4, 2>>, <<5, 2>>, <<2, 4>>, <<4, 1>>, <<4, 0>>, <<5, 3>>, <<2, 2>>, <<3, 0>>, <<6, 2>> >>]
>>

botPicks(s, coord) == {m \in botMove(s.boardData, s.botPiece) : ~m.isNull /\ m.coordinate = coord}

RECURSIVE replay(_, _, _)
replayResume(s, line, i, picks) == IF currentPlayer(s) = s.botPiece /\ picks # {} THEN replay(proceedBotMoveResume(s, CHOOSE m \in picks : TRUE), line, i + 1) ELSE [ok |-> FALSE, s |-> s]

replayClick(r, line, i) == IF r.note.key \in MoveKeys THEN replay(r, line, i + 1) ELSE [ok |-> FALSE, s |-> r]

replayStep(s, line, i) == IF s.pending > 0 THEN replayResume(s, line, i, botPicks(s, line[i])) ELSE replayClick(tableClick(s, line[i]), line, i)

replay(s, line, i) == IF i > Len(line) THEN [ok |-> TRUE, s |-> s] ELSE replayStep([s EXCEPT !.note = EmptyNote], line, i)

\* The state after an event: r is what the handler made of s.
Commit(s, r) ==
  /\ boardData' = r.boardData
  /\ history' = r.history
  /\ count' = r.count
  /\ skipCount' = r.skipCount
  /\ isInteractive' = r.isInteractive
  /\ botPiece' = r.botPiece
  /\ pending' = r.pending
  /\ shared' = r.shared
  /\ hung' = r.hung
  /\ note' = r.note
  /\ pre' = [ProgOf(s) EXCEPT !.ended = ended, !.over = over]
  /\ ended' = IF r.note.key = "restarted" THEN FALSE ELSE IF r.note.key = "gameOver" THEN TRUE ELSE ended
  /\ trip' = IF r.note.key = "undone" THEN [stage |-> "undone", from |-> ProgOf(s)]
             ELSE IF r.note.key = "restarted" THEN [stage |-> IF trip.stage \in {"restarted", "restartedTwice"} THEN "restartedTwice" ELSE "restarted", from |-> ProgOf(s)]
             ELSE IF r.note.key = "redone" /\ trip.stage = "undone" THEN [stage |-> "redone", from |-> trip.from]
             ELSE NoTrip
  /\ over' = IF r.note.result.shown THEN TRUE ELSE IF r.note.key \in {"restarted", "undone"} THEN FALSE ELSE over

\* A human event.  The state a rejected event leaves is recorded and the human
\* events after it are not explored: they are those of the state before it,
\* which the rejected event is checked to have left as it was.
Human(s, r) ==
  /\ r.pending <= MaxPending
  /\ Commit(s, r)
  /\ budget' = IF r.note.key \in RejectedKeys THEN 0 ELSE budget - 1

Init ==
  \E i \in 1 .. Len(Openings) : \E r \in {replay(Loaded(Openings[i].bot), Openings[i].line, 1)} :
    /\ r.ok
    /\ boardData = r.s.boardData
    /\ history = r.s.history
    /\ count = r.s.count
    /\ skipCount = r.s.skipCount
    /\ isInteractive = r.s.isInteractive
    /\ botPiece = r.s.botPiece
    /\ pending = r.s.pending
    /\ shared = r.s.shared
    /\ hung = FALSE
    /\ note = EmptyNote
    /\ pre = ProgOf(r.s)
    /\ ended = FALSE
    /\ over = FALSE
    /\ trip = NoTrip
    /\ budget = MaxEvents

\* A click on the board cell coord.
Click(coord) ==
  /\ ~hung
  /\ budget > 0
  /\ \E s \in {Begin("click")} : \E r \in {tableClick(s, coord)} : Human(s, r)

\* The restart button.
Restart ==
  /\ ~hung
  /\ budget > 0
  /\ \E s \in {Begin("restart")} : \E r \in {runIfInteractive(s, initGame(s))} : Human(s, r)

\* The undo button.
Undo ==
  /\ ~hung
  /\ budget > 0
  /\ \E s \in {Begin("undo")} : \E r \in {runIfInteractive(s, onUndo(s))} : Human(s, r)

\* The redo button.
Redo ==
  /\ ~hung
  /\ budget > 0
  /\ \E s \in {Begin("redo")} : \E r \in {runIfInteractive(s, onRedo(s))} : Human(s, r)

\* A bot timer fires and proceedBotMove resumes.
Resume ==
  /\ ~hung
  /\ pending > 0
  /\ \E s \in {Begin("resume")} : \E move \in botMove(s.boardData, s.botPiece) : \E r \in {proceedBotMoveResume(s, move)} :
       /\ r.pending <= MaxPending
       /\ Commit(s, r)
       /\ UNCHANGED budget

Next ==
  \/ \E coord \in Coords : Click(coord)
  \/ Restart
  \/ Undo
  \/ Redo
  \/ Resume

Spec == Init /\ [][Next]_vars

\* ------------------------------------------------- the move rules on their own
\* The methods of the move rules, the history and the player manager are
\* called on the games the openings pass through: getFlipCandidates on every
\* cell for both colours, getData on every turn index, setPlayer for both
\* colours.
RulesInit ==
  \E i \in 1 .. Len(Openings) : \E k \in 0 .. Len(Openings[i].line) : \E r \in {replay(Loaded(Openings[i].bot), SubSeq(Openings[i].line, 1, k), 1)} :
    /\ r.ok
    /\ boardData = r.s.boardData
    /\ history = r.s.history
    /\ count = r.s.count
    /\ skipCount = r.s.skipCount
    /\ isInteractive = r.s.isInteractive
    /\ botPiece = r.s.botPiece
    /\ pending = r.s.pending
    /\ shared = r.s.shared
    /\ hung = FALSE
    /\ note = EmptyNote
    /\ pre = ProgOf(r.s)
    /\ ended = FALSE
    /\ over = FALSE
    /\ trip = NoTrip
    /\ budget = 0

\* moveRules.getFlipCandidates(coord, pieceToPlace) is called and what it
\* returns is recorded: key says whether it is null, flips is the list.
Probe(coord, pieceToPlace) ==
  /\ note.op = "init"
  /\ \E res \in {getFlipCandidates(boardData, coord, pieceToPlace)} :
       note' = [EmptyNote EXCEPT !.op = "probe", !.coord = coord, !.player = pieceToPlace, !.key = IF res.isNull THEN "null" ELSE "list", !.flips = res.cells]
  /\ UNCHANGED <<boardData, history, count, skipCount, isInteractive, botPiece, pending, shared, hung, pre, ended, over, trip, budget>>

\* moveRules.getValidMoves(pieceToPlace) and getMovesAndFlips(pieceToPlace)
\* are called and what they return is recorded.
ProbeMoves(pieceToPlace) ==
  /\ note.op = "init"
  /\ note' = [EmptyNote EXCEPT !.op = "moves", !.player = pieceToPlace, !.moves = getValidMoves(boardData, pieceToPlace), !.movesAndFlips = getMovesAndFlips(boardData, pieceToPlace)]
  /\ UNCHANGED <<boardData, history, count, skipCount, isInteractive, botPiece, pending, shared, hung, pre, ended, over, trip, budget>>

\* strategies[type](movesAndFlips) is called on the list getMovesAndFlips
\* returns for pieceToPlace, as bot.move() calls it on a list that is not
\* empty; the entry it returns is recorded with the list.
ProbeStrategy(type, pieceToPlace) ==
  /\ note.op = "init"
  /\ \E mf \in {getMovesAndFlips(boardData, pieceToPlace)} :
       /\ Len(mf) > 0
       /\ \E m \in strategies(type, mf) :
            note' = [EmptyNote EXCEPT !.op = "strategy", !.key = type, !.player = pieceToPlace, !.coord = m.coordinate, !.flips = m.flipCandidates, !.movesAndFlips = mf]
  /\ UNCHANGED <<boardData, history, count, skipCount, isInteractive, botPiece, pending, shared, hung, pre, ended, over, trip, budget>>

\* historyCon.isData(turn) and historyCon.getData(turn) are called and what
\* they return is recorded.
ProbeData(turn) ==
  /\ note.op = "init"
  /\ note' = [EmptyNote EXCEPT !.op = "getData", !.turn = turn, !.key = IF isData(history, turn) THEN "isData" ELSE "noData", !.data = getData(history, turn)]
  /\ UNCHANGED <<boardData, history, count, skipCount, isInteractive, botPiece, pending, shared, hung, pre, ended, over, trip, budget>>

\* playerM.setPlayer(player) is called.
SetPlayer(player) ==
  /\ note.op \in {"init", "setPlayer"}
  /\ skipCount' = setPlayerSkip(count, skipCount, player)
  /\ note' = [EmptyNote EXCEPT !.op = "setPlayer", !.player = player, !.turn = count]
  /\ pre' = ProgOf(State)
  /\ UNCHANGED <<boardData, history, count, isInteractive, botPiece, pending, shared, hung, ended, over, trip, budget>>

RulesNext ==
  \/ \E coord \in Coords : \E pieceToPlace \in Pieces : Probe(coord, pieceToPlace)
  \/ \E pieceToPlace \in Pieces : ProbeMoves(pieceToPlace)
  \/ \E type \in StrategyTypes : \E pieceToPlace \in Pieces : ProbeStrategy(type, pieceToPlace)
  \/ \E turn \in -2 .. MaxProbeTurn : ProbeData(turn)
  \/ \E player \in Pieces : SetPlayer(player)

RulesSpec == RulesInit /\ [][RulesNext]_vars

\* ------------------------------------------------------------------ properties
\* The program's state now, as pre records it for the state before the event.
Cur == [ProgOf(State) EXCEPT !.ended = ended, !.over = over]

\* The player to move in the state before the event.
PrePlayer == playerAt(pre.count, pre.skipCount)

\* A move was accepted by handleMove in the last event.
Moved == note.key \in MoveKeys

\* piece has a legal move on board b.
HasMove(b, piece) == \E x \in Coords : ~getFlipCandidates(b, x, piece).isNull

Other(piece) == CHOOSE q \in Pieces : q # piece

\* The cell k steps from coord in direction dir.
Step(coord, dir, k) == <<coord[1] + dir[1] * k, coord[2] + dir[2] * k>>

\* The lengths n of a run of n opponent cells next to coord in direction dir
\* that is followed at once by a cell of colour piece.
RefRunLengths(b, coord, piece, dir) ==
  {n \in 1 .. (BoardSize - 1) :
     /\ Step(coord, dir, n + 1) \in Coords
     /\ b[Step(coord, dir, n + 1)] = piece
     /\ \A j \in 1 .. n : b[Step(coord, dir, j)] = Other(piece)}

\* The reference flip set: the cells of those runs, over the 8 directions.
RefFlips(b, coord, piece) ==
  UNION {UNION {{Step(coord, DIRECTIONS[d], j) : j \in 1 .. n} : n \in RefRunLengths(b, coord, piece, DIRECTIONS[d])} : d \in 1 .. Len(DIRECTIONS)}

CellsOf(list) == {list[i] : i \in 1 .. Len(list)}

\* The history after one entry has been recorded at the turn after pre.count.
PushedOnce(player) == Append(SubSeq(pre.history, 1, pre.count + 1), [player |-> player, boardData |-> boardData])

\* C1: a click that handleMove receives on a cell that is occupied, or on an
\* empty cell where getFlipCandidates returns null for the current player,
\* leaves the whole state as it was: board, turn index, skip offset, history,
\* the interactive flag, and no bot move is scheduled.
C1_IllegalMoveChangesNothing ==
  (note.op = "click" /\ pre.isInteractive /\ getFlipCandidates(pre.boardData, note.coord, PrePlayer).isNull) => Cur = pre

\* An illegal click on an empty cell, in a game under way, has been handled.
C1_Witness == note.op = "click" /\ note.key = "invalid" /\ pre.count > 0 /\ pre.boardData[note.coord] = "empty" /\ Cur = pre

\* An illegal click on an occupied cell has been handled.
C1_WitnessOccupied == note.op = "click" /\ note.key = "invalid" /\ pre.boardData[note.coord] # "empty"

\* C2: on every board, for every empty cell and colour, getFlipCandidates
\* returns exactly the reference flip set, each cell once, and null exactly
\* when that set is empty.
C2_FlipCandidatesAreReference ==
  (note.op = "probe" /\ boardData[note.coord] = "empty") =>
    /\ CellsOf(note.flips) = RefFlips(boardData, note.coord, note.player)
    /\ Len(note.flips) = Cardinality(RefFlips(boardData, note.coord, note.player))
    /\ (note.key = "null") <=> (RefFlips(boardData, note.coord, note.player) = {})

\* A probe of an empty cell returned cells of more than one direction while
\* another direction's run of opponent cells ended on an empty cell or on the
\* edge and gave nothing.
C2_Witness ==
  /\ note.op = "probe"
  /\ boardData[note.coord] = "empty"
  /\ Len(note.flips) >= 3
  /\ Cardinality({d \in 1 .. Len(DIRECTIONS) : RefRunLengths(boardData, note.coord, note.player, DIRECTIONS[d]) # {}}) >= 2
  /\ \E d \in 1 .. Len(DIRECTIONS) :
       /\ Step(note.coord, DIRECTIONS[d], 1) \in Coords
       /\ boardData[Step(note.coord, DIRECTIONS[d], 1)] = Other(note.player)
       /\ RefRunLengths(boardData, note.coord, note.player, DIRECTIONS[d]) = {}

\* C3: a legal move by the current player P at cell c with flip set F changes
\* exactly these cells: c from empty to P, every cell of F from the opponent's
\* colour to P; every other cell keeps its state.
C3_MoveChangesExactlyCellAndFlips ==
  Moved =>
    /\ note.player = PrePlayer
    /\ CellsOf(note.flips) = CellsOf(getFlipCandidates(pre.boardData, note.coord, PrePlayer).cells)
    /\ pre.boardData[note.coord] = "empty"
    /\ boardData[note.coord] = PrePlayer
    /\ \A x \in CellsOf(note.flips) : pre.boardData[x] = Other(PrePlayer) /\ boardData[x] = PrePlayer
    /\ \A x \in Coords \ (CellsOf(note.flips) \cup {note.coord}) : boardData[x] = pre.boardData[x]

\* A human move that turned over at least two pieces has been made.
C3_Witness == Moved /\ note.op = "click" /\ Len(note.flips) >= 2 /\ boardData[note.coord] = note.player

\* C4: after a legal move by P that leaves P's opponent a legal move, the turn
\* index is one higher, the current player is P's opponent, and exactly one
\* history entry, the new board with the new current player, is recorded at
\* the new turn index.
C4_UsualTurnAdvancesOnce ==
  (Moved /\ HasMove(boardData, Other(note.player))) =>
    /\ count = pre.count + 1
    /\ currentPlayer(State) = Other(note.player)
    /\ history = PushedOnce(Other(note.player))
    /\ Len(history) = count + 1

\* Such a move has been made after an undo, so that the entry replaces one.
C4_Witness == Moved /\ HasMove(boardData, Other(note.player)) /\ count = pre.count + 1 /\ Len(pre.history) > pre.count + 1

\* C5: after a legal move by P that leaves the opponent no legal move but P
\* one, the skip notification names the opponent and the current player is P.
C5_SkipReturnsControl ==
  (Moved /\ ~HasMove(boardData, Other(note.player)) /\ HasMove(boardData, note.player)) =>
    /\ note.skipped = Other(note.player)
    /\ currentPlayer(State) = note.player

\* The human's move has left the opponent without a move.
C5_Witness == Moved /\ note.op = "click" /\ ~HasMove(boardData, Other(note.player)) /\ HasMove(boardData, note.player) /\ note.skipped = Other(note.player)

\* C6 as stated: when a move causes the opponent to be skipped, the turn index
\* ends 2 higher and two history entries have been recorded.
C6_PassConsumesTurnIndex ==
  (Moved /\ note.skipped # NoPiece) => (count = pre.count + 2 /\ Len(history) = pre.count + 3)

\* C6: when a move causes the opponent to be skipped, the pass takes no turn
\* index: the skip offset is one higher, the turn index is one higher, and one
\* history entry, the new board with the mover as current player, is recorded.
C6_PassKeepsTurnIndex ==
  (Moved /\ note.skipped # NoPiece) =>
    /\ skipCount = pre.skipCount + 1
    /\ count = pre.count + 1
    /\ history = PushedOnce(note.player)
    /\ Len(history) = count + 1

\* The bot's move has left the human without a move.
C6_Witness == Moved /\ note.op = "resume" /\ note.skipped # NoPiece /\ note.skipped # botPiece /\ count = pre.count + 1

\* C7: after a legal move that leaves neither colour a legal move, the final
\* board is the history entry at the advanced turn index, the result is
\* announced, and the announced score is the number of black cells and the
\* number of white cells of the final board.
C7_GameOverRecordsAndScores ==
  (Moved /\ ~HasMove(boardData, "black") /\ ~HasMove(boardData, "white")) =>
    /\ count = pre.count + 1
    /\ Len(history) = count + 1
    /\ history[count + 1].boardData = boardData
    /\ note.result.shown
    /\ note.result.b = Cardinality({x \in Coords : boardData[x] = "black"})
    /\ note.result.w = Cardinality({x \in Coords : boardData[x] = "white"})

\* A game has ended with empty cells left, and its score has been announced.
C7_Witness == Moved /\ ~HasMove(boardData, "black") /\ ~HasMove(boardData, "white") /\ note.result.shown /\ note.result.b + note.result.w >= 10 /\ \E x \in Coords : boardData[x] = "empty"

\* C8 as stated: once the game-over transition has happened, no move is
\* accepted until initGame resets the game.
C8_GameOverIsTerminal == pre.ended => ~Moved

\* C8: while the result is on show, after the game-over transition and until
\* initGame resets the game or an undo leaves the final position, no move is
\* accepted.
C8_NoMoveWhileResultOnShow == pre.over => ~Moved

\* A click on an empty cell has been turned down after the game was over.
C8_Witness == pre.over /\ pre.isInteractive /\ note.op = "click" /\ note.key = "invalid" /\ pre.boardData[note.coord] = "empty"

\* C9: while a bot move is scheduled and has not resumed, the interactive
\* flag is false.
C9_LockedWhileBotPending == pending > 0 => isInteractive = FALSE

\* C10: once no bot move is pending, the interactive flag is true.
C10_InteractiveWhenIdle == (pending = 0 /\ ~hung) => isInteractive = TRUE

\* Board, turn index, skip offset and history are as before the event.
SameGame == boardData = pre.boardData /\ count = pre.count /\ skipCount = pre.skipCount /\ history = pre.history

\* C11: when a scheduled bot move resumes and the current player is not the
\* bot's colour any more, the resumed action aborts: board, turn index, skip
\* offset and history are left as they were.
C11_StaleBotMoveAborts == (note.op = "resume" /\ PrePlayer # botPiece) => (SameGame /\ note.key = "stale")

\* A bot move scheduled during a game has resumed after the game was changed
\* under it, on a board where the bot's colour has a move.
C11_Witness == note.op = "resume" /\ note.key = "stale" /\ botPiece # NoPiece /\ HasMove(boardData, botPiece) /\ SameGame

\* C12: an undo issued after a move and followed immediately by a redo
\* restores exactly the board of before the undo, cell for cell, and the same
\* turn index and current player.
C12_UndoRedoRoundTrip ==
  (trip.stage = "redone" /\ trip.from.count > 0) =>
    /\ \A x \in Coords : boardData[x] = trip.from.boardData[x]
    /\ count = trip.from.count
    /\ currentPlayer(State) = playerAt(trip.from.count, trip.from.skipCount)

\* The pair has been served after a move, the undo having gone back over a
\* ply of the bot.
C12_Witness == trip.stage = "redone" /\ trip.from.count > 0 /\ pre.count + 2 <= count /\ count = trip.from.count /\ boardData # pre.boardData

\* C13: after an undo to turn T and a new legal move, the new move's snapshot
\* is at history index T+1 and getData(T+2) is null: the old redo branch is
\* gone and a redo fails.
C13_NewMoveTruncatesHistory ==
  (Moved /\ Len(pre.history) > pre.count + 1) =>
    /\ count = pre.count + 1
    /\ getData(history, pre.count + 1) = [isNull |-> FALSE, player |-> currentPlayer(State), boardData |-> boardData]
    /\ getData(history, pre.count + 2).isNull
    /\ ~performRedo(State).success

\* After an undo the human has played a move other than the one undone.
C13_Witness ==
  /\ Moved
  /\ note.op = "click"
  /\ Len(pre.history) > pre.count + 2
  /\ pre.history[pre.count + 2].boardData # boardData
  /\ Len(history) = pre.count + 2

\* C14: an undo requested at turn index 0, and a redo requested when there is
\* no snapshot at turn index + 1, change nothing: board, turn index, current
\* player (skip offset) and history are as before.
C14_HistoryBoundaryIsNoOp ==
  /\ (note.op = "undo" /\ pre.isInteractive /\ pre.count = 0) => SameGame
  /\ (note.op = "redo" /\ pre.isInteractive /\ getData(pre.history, pre.count + 1).isNull) => (SameGame /\ pending = pre.pending /\ note.key = "boundary")

\* A redo has been requested at the end of the history of a game under way.
C14_Witness == note.op = "redo" /\ note.key = "boundary" /\ pre.isInteractive /\ pre.count > 0 /\ count = pre.count

\* An undo has been requested at turn index 0 and has returned.
C14_WitnessUndo == note.op = "undo" /\ pre.isInteractive /\ pre.count = 0 /\ note.key = "undone" /\ ~hung

\* C15: with a bot configured, an undo or redo that has been served leaves
\* the game on a ply of the human, or on the history boundary: turn index 0
\* after an undo, the last history index after a redo.
C15_UndoRedoSkipBotPlies ==
  (botPiece # NoPiece /\ pre.isInteractive /\ ~hung) =>
    /\ note.op = "undo" => (currentPlayer(State) # botPiece \/ count = 0)
    /\ note.op = "redo" => (currentPlayer(State) # botPiece \/ count = Len(history) - 1)

\* An undo has gone back over a ply of the bot to a ply of the human.
C15_Witness == botPiece # NoPiece /\ pre.isInteractive /\ ~hung /\ note.op = "undo" /\ count + 2 <= pre.count /\ currentPlayer(State) # botPiece

\* A redo has gone forward over plies of the bot and stopped on one, at the
\* last history index.
C15_WitnessRedo == botPiece # NoPiece /\ pre.isInteractive /\ ~hung /\ note.key = "redone" /\ currentPlayer(State) = botPiece /\ count = Len(history) - 1 /\ pre.count + 2 <= count

\* C16: every undo and every redo request terminates: no handler is left
\* repeating the single step for ever, whatever the bot's colour.
C16_UndoRedoTerminate == ~hung

\* The last event called pushData: a move was accepted (pushData at the new
\* turn index) or the game was restarted (pushData at 0).
Pushed == Moved \/ note.key = "restarted"

C17_WitnessCut == Moved /\ Len(pre.history) > pre.count + 2 /\ Len(history) < Len(pre.history)

\* C18: getData(turnIndex) is the stored (player, board) pair when
\* 0 <= turnIndex < length and null when turnIndex is negative or >= length,
\* and isData(turnIndex) is true exactly when getData(turnIndex) is not null.
C18_GetDataInRangeOrNull ==
  note.op = "getData" =>
    /\ (0 <= note.turn /\ note.turn < Len(history)) => (~note.data.isNull /\ note.data.player = history[note.turn + 1].player /\ note.data.boardData = history[note.turn + 1].boardData)
    /\ (note.turn < 0 \/ note.turn >= Len(history)) => note.data.isNull
    /\ (note.key = "isData") <=> ~note.data.isNull

\* getData has been asked for the index just past the end of a history of
\* several entries.
C18_Witness == note.op = "getData" /\ note.turn = Len(history) /\ Len(history) >= 5 /\ note.data.isNull /\ note.key = "noData"

\* getData has been asked for a negative index, and for a stored one.
C18_WitnessNegative == note.op = "getData" /\ note.turn < 0 /\ note.data.isNull

C18_WitnessStored == note.op = "getData" /\ note.turn >= 3 /\ ~note.data.isNull /\ note.data.boardData = history[note.turn + 1].boardData

\* C20: after setPlayer(target), for every turn count and target in
\* {black, white}, the current player is target, the turn count is unchanged
\* and the skip offset is 0 or 1.
C20_SetPlayerYieldsTarget ==
  note.op = "setPlayer" =>
    /\ currentPlayer(State) = note.player
    /\ playerOrder[((count + skipCount) % 2) + 1] = note.player
    /\ count = pre.count
    /\ skipCount \in {0, 1}

\* setPlayer has brought the skip offset from 1 back to 0 at an odd turn count.
C20_Witness == note.op = "setPlayer" /\ count % 2 = 1 /\ pre.skipCount = 1 /\ skipCount = 0 /\ currentPlayer(State) = note.player

C21_BotMoveIsLegalWhenApplied ==
  (Moved /\ note.op = "resume") =>
    /\ note.player = botPiece
    /\ pre.boardData[note.coord] = "empty"
    /\ boardData[note.coord] = botPiece
    /\ ~getFlipCandidates(pre.boardData, note.coord, botPiece).isNull
    /\ note.flips = getFlipCandidates(pre.boardData, note.coord, botPiece).cells
    /\ \A x \in Coords \ (CellsOf(note.flips) \cup {note.coord}) : boardData[x] = pre.boardData[x]

\* The bot has moved on a timer that was pending while the UI was unlocked.
C21_Witness == Moved /\ note.op = "resume" /\ pre.isInteractive /\ boardData[note.coord] = botPiece /\ Len(note.flips) >= 1

\* C22: getFlipCandidates returns null for every cell that is not empty and
\* for every empty cell with no bracketed run; a result that is not null has
\* at least one cell and each of its cells holds the opponent's colour; the
\* call leaves the board as it was.
C22_FlipCandidatesNullOrNonEmpty ==
  note.op = "probe" =>
    /\ boardData[note.coord] # "empty" => note.key = "null"
    /\ (boardData[note.coord] = "empty" /\ RefFlips(boardData, note.coord, note.player) = {}) => note.key = "null"
    /\ note.key = "list" => (Len(note.flips) >= 1 /\ \A x \in CellsOf(note.flips) : boardData[x] = Other(note.player))
    /\ boardData = pre.boardData

\* getFlipCandidates has returned null for an occupied cell next to a run it
\* would have returned had the cell been empty.
C22_Witness == note.op = "probe" /\ boardData[note.coord] # "empty" /\ note.key = "null" /\ RefFlips(boardData, note.coord, note.player) # {}

\* getFlipCandidates has returned null for an empty cell next to an opponent
\* piece.
C22_WitnessEmpty ==
  /\ note.op = "probe"
  /\ boardData[note.coord] = "empty"
  /\ note.key = "null"
  /\ \E d \in 1 .. Len(DIRECTIONS) : Step(note.coord, DIRECTIONS[d], 1) \in Coords /\ boardData[Step(note.coord, DIRECTIONS[d], 1)] = Other(note.player)

\* The place of a coordinate in row-major order.
RowMajor(coord) == coord[1] * BoardSize + coord[2]

\* C23: getValidMoves(piece) is exactly the list of the coordinates whose
\* getFlipCandidates is not null, in row-major order without duplicates, and
\* getMovesAndFlips(piece) lists the same coordinates in the same order, each
\* with its getFlipCandidates result.
C23_ValidMovesAreNonNullCells ==
  note.op = "moves" =>
    /\ \A x \in Coords : (x \in CellsOf(note.moves)) <=> ~getFlipCandidates(boardData, x, note.player).isNull
    /\ \A i \in 1 .. Len(note.moves) : \A j \in 1 .. Len(note.moves) : i < j => RowMajor(note.moves[i]) < RowMajor(note.moves[j])
    /\ Len(note.movesAndFlips) = Len(note.moves)
    /\ \A i \in 1 .. Len(note.moves) :
         /\ note.movesAndFlips[i].coordinate = note.moves[i]
         /\ note.movesAndFlips[i].flipCandidates = getFlipCandidates(boardData, note.moves[i], note.player).cells

\* The moves have been listed on a board with several of them, in more than
\* one row, one of them turning over two pieces or more.
C23_Witness ==
  /\ note.op = "moves"
  /\ Len(note.moves) >= 5
  /\ note.moves[1][1] # note.moves[Len(note.moves)][1]
  /\ \E i \in 1 .. Len(note.movesAndFlips) : Len(note.movesAndFlips[i].flipCandidates) >= 2

\* C24: initGame is idempotent: called twice in a row, it leaves the board,
\* turn index, current player and history that one call leaves.
C24_InitGameIdempotent == trip.stage = "restartedTwice" => (SameGame /\ currentPlayer(State) = PrePlayer)

\* The game has been restarted twice in a row from a game under way.
C24_Witness == trip.stage = "restartedTwice" /\ note.key = "restarted" /\ Len(history) = 1 /\ count = 0

\* The starting layout.
StartBoard == [x \in Coords |-> IF x \in {<<3, 3>>, <<4, 4>>} THEN "white" ELSE IF x \in {<<3, 4>>, <<4, 3>>} THEN "black" ELSE "empty"]

\* C25: after initGame the board is the starting layout, the turn index is 0,
\* the current player is black, and the history has exactly one entry, at
\* index 0: the starting board with player black.
C25_InitGameStartingPosition ==
  note.key = "restarted" =>
    /\ boardData = StartBoard
    /\ count = 0
    /\ currentPlayer(State) = "black"
    /\ Len(history) = 1
    /\ getData(history, 0) = [isNull |-> FALSE, player |-> "black", boardData |-> StartBoard]

\* A game of ten plies or more, in which a turn was skipped, has been
\* restarted.
C25_Witness == note.key = "restarted" /\ pre.count >= 10 /\ pre.skipCount >= 1 /\ boardData = StartBoard /\ Len(history) = 1

\* C26: in every reachable state the board has exactly 64 cells, each empty,
\* black or white, and score.b + score.w + the number of empty cells is 64.
C26_BoardIsSixtyFourCells ==
  /\ DOMAIN boardData = Coords
  /\ Cardinality(DOMAIN boardData) = 64
  /\ \A x \in Coords : boardData[x] \in CellStates
  /\ score(boardData).b + score(boardData).w + Cardinality({x \in Coords : boardData[x] = "empty"}) = 64

\* A game under way with pieces of both colours and empty cells on the board
\* after moves, an undo or a redo.
C26_Witness == note.op \in {"undo", "redo"} /\ note.key \in {"undone", "redone"} /\ score(boardData).b >= 3 /\ score(boardData).w >= 3 /\ count >= 8

\* The board after black's (2,3) on the starting layout.
OpeningBoard == [x \in Coords |-> IF x \in {<<2, 3>>, <<3, 3>>, <<3, 4>>, <<4, 3>>} THEN "black" ELSE IF x = <<4, 4>> THEN "white" ELSE "empty"]

\* C27: from the starting position, black's move at (2,3) is legal and turns
\* over exactly (3,3); the board is then black at (2,3), (3,3), (3,4), (4,3),
\* white at (4,4), the rest empty; the turn index is 1 and the player to move
\* is white.
C27_OpeningMove ==
  (note.op = "click" /\ note.coord = <<2, 3>> /\ pre.isInteractive /\ pre.boardData = StartBoard /\ pre.count = 0 /\ pre.skipCount = 0) =>
    /\ Moved
    /\ note.player = "black"
    /\ note.flips = << <<3, 3>> >>
    /\ boardData = OpeningBoard
    /\ count = 1
    /\ currentPlayer(State) = "white"

\* Black has played (2,3) on the starting position.
C27_Witness == note.op = "click" /\ note.coord = <<2, 3>> /\ pre.boardData = StartBoard /\ pre.count = 0 /\ boardData = OpeningBoard /\ count = 1

\* The entry a strategy has returned, and the entries of the list it was given.
Selected == [coordinate |-> note.coord, flipCandidates |-> note.flips]

Listed == CellsOf(note.movesAndFlips)

\* The entries of the list with as many flip candidates as any.
MaxFlips == {e \in Listed : \A f \in Listed : Len(f.flipCandidates) <= Len(e.flipCandidates)}

CornerCells == {<<0, 0>>, <<0, 7>>, <<7, 0>>, <<7, 7>>}

\* C28: focusOnCorner, on a list that is not empty, returns a move on a corner
\* cell if the list has one, whatever its flip count; if it has none it
\* returns a move greedy could return, a listed move with maximal flip count.
C28_FocusOnCornerPrefersCorners ==
  (note.op = "strategy" /\ note.key = "focusOnCorner") =>
    /\ Selected \in Listed
    /\ (\E e \in Listed : e.coordinate \in CornerCells) => Selected.coordinate \in CornerCells
    /\ ~(\E e \in Listed : e.coordinate \in CornerCells) => (Selected \in MaxFlips /\ Selected \in greedy(note.movesAndFlips))

\* focusOnCorner has returned a corner move that turns over fewer pieces than
\* another listed move.
C28_Witness == note.op = "strategy" /\ note.key = "focusOnCorner" /\ Selected.coordinate \in CornerCells /\ Selected \notin MaxFlips

\* C29: greedy, on a list that is not empty, returns for every outcome of the
\* tie-break an entry of the list than which no entry has more flip
\* candidates, and every entry with the maximal flip count can be returned.
C29_GreedyMaximisesFlips ==
  (note.op = "strategy" /\ note.key = "greedy") =>
    /\ Selected \in Listed
    /\ \A e \in Listed : Len(e.flipCandidates) <= Len(Selected.flipCandidates)
    /\ \A e \in MaxFlips : e \in greedy(note.movesAndFlips)

\* greedy has returned one of several entries with the maximal flip count, on
\* a list that also has entries with fewer.
C29_Witness == note.op = "strategy" /\ note.key = "greedy" /\ Cardinality(MaxFlips) >= 2 /\ MaxFlips # Listed /\ Selected \in MaxFlips /\ Selected # note.movesAndFlips[1]

\* The number of cells of a board that hold a piece.
Pieces_On(b) == Cardinality({x \in Coords : b[x] # "empty"})

\* The cells the four initial pieces leave empty.
MaxTurn == BoardSize * BoardSize - Len(INITIAL_PIECES)

\* C30: between operations the live board holds 4 + the turn index pieces and
\* the board stored at history index i holds 4 + i, so that the turn index
\* never exceeds 60.
C30_PieceCountFollowsTurn ==
  /\ Pieces_On(boardData) = 4 + count
  /\ \A i \in 1 .. Len(history) : Pieces_On(history[i].boardData) = 4 + (i - 1)
  /\ count <= MaxTurn

\* An undo has gone back over a pass: entries above the turn index remain.
C30_Witness == ~hung /\ note.key = "undone" /\ count >= 1 /\ Len(history) > count + 1 /\ \E i \in 1 .. Len(history) - 1 : history[i].player = history[i + 1].player

\* A game has ended with the board not full.
C30_WitnessGameOver == ~hung /\ note.key = "gameOver" /\ Pieces_On(boardData) = 4 + count /\ count < MaxTurn

\* C31: between operations the turn index is an index of the history, and the
\* live board and the current player are those stored at that index.
C31_LiveStateIsHistoryEntry ==
  /\ 0 <= count
  /\ count < Len(history)
  /\ boardData = history[count + 1].boardData
  /\ currentPlayer(State) = history[count + 1].player

\* An undo has stopped below the end of the history, on the entry of its turn.
C31_Witness == ~hung /\ note.key = "undone" /\ count >= 1 /\ count + 1 < Len(history) /\ boardData = history[count + 1].boardData /\ boardData # history[Len(history)].boardData

\* A redo has gone forward again to the entry of its turn.
C31_WitnessRedo == ~hung /\ note.key = "redone" /\ count > pre.count /\ boardData = history[count + 1].boardData /\ currentPlayer(State) = history[count + 1].player

\* A game has ended: the final position is the last entry.
C31_WitnessGameOver == note.key = "gameOver" /\ count + 1 = Len(history) /\ boardData = history[count + 1].boardData

\* C32: between operations the current player has a legal move on the live
\* board, or neither colour has one; the game does not wait on a player who
\* must pass while the opponent can move.
C32_CurrentPlayerCanMoveOrGameOver ==
  HasMove(boardData, currentPlayer(State)) \/ \A q \in Pieces : ~HasMove(boardData, q)

\* A move has made the opponent pass: the mover is to move again.
C32_Witness == note.key = "skip" /\ HasMove(boardData, currentPlayer(State)) /\ ~HasMove(boardData, Other(currentPlayer(State)))

\* An undo has gone back from a finished game to a position with a move.
C32_WitnessUndo == ~hung /\ note.key = "undone" /\ pre.over /\ HasMove(boardData, currentPlayer(State))

\* C33: with the bot playing white, every piece a board click places is
\* black, and every white piece is placed by a resumed bot move.
C33_ClicksPlaceOnlyBlack ==
  (botPiece = "white" /\ Moved) =>
    /\ note.op = "click" => note.player = "black"
    /\ note.player = "white" => note.op = "resume"

\* C34: at most one bot move is scheduled at any time.
C34_AtMostOneBotMovePending == pending <= 1

====
